---- MODULE Spec2Model ----
(***************************************************************************)
(* Model of src/src/http_context.rs: HttpContext::from_request and the     *)
(* pure helpers it calls.  A Rust String / &str is a sequence of           *)
(* one-character strings; Option<T> is <<>> (None) or <<x>> (Some(x)); a    *)
(* HashMap<String,String> is a function whose DOMAIN is the key set.        *)
(***************************************************************************)
EXTENDS Integers, Sequences, FiniteSets, TLC

VARIABLES req, ctx

vars == <<req, ctx>>

(* ------------------------------ Option ------------------------------- *)
None == <<>>

Some(x) == <<x>>

is_some(o) == o # <<>>

is_none(o) == o = <<>>

unwrap(o) == o[1]

(* ------------------------------ chars -------------------------------- *)
UpperChars == <<"A","B","C","D","E","F","G","H","I","J","K","L","M",
                "N","O","P","Q","R","S","T","U","V","W","X","Y","Z">>

LowerChars == <<"a","b","c","d","e","f","g","h","i","j","k","l","m",
                "n","o","p","q","r","s","t","u","v","w","x","y","z">>

DigitChars == <<"0","1","2","3","4","5","6","7","8","9">>

Digits == {DigitChars[i] : i \in 1..Len(DigitChars)}

UpperSet == {UpperChars[i] : i \in 1..Len(UpperChars)}

\* An octet outside visible ASCII (obs-text), which http::HeaderValue may hold.
OpaqueByte == "\\xFF"

Whitespace == {" ", "\t"}

char_to_lowercase(c) ==
    IF c \in UpperSet
      THEN LowerChars[CHOOSE i \in 1..Len(UpperChars) : UpperChars[i] = c]
      ELSE c

(* ------------------------------ str ---------------------------------- *)
\* str::to_lowercase (ASCII range)
RECURSIVE to_lowercase(_)
to_lowercase(s) ==
    IF s = <<>> THEN <<>> ELSE <<char_to_lowercase(s[1])>> \o to_lowercase(Tail(s))

\* s[i..] starts with p   (i is 1-based)
starts_with_at(s, p, i) ==
    /\ i + Len(p) - 1 <= Len(s)
    /\ \A k \in 1..Len(p) : s[i + k - 1] = p[k]

starts_with(s, p) == starts_with_at(s, p, 1)

ends_with(s, p) ==
    /\ Len(p) <= Len(s)
    /\ \A k \in 1..Len(p) : s[Len(s) - Len(p) + k] = p[k]

contains(s, p) == \E i \in 1..(Len(s) + 1) : starts_with_at(s, p, i)

\* str::find: 1-based index of the first occurrence of p, 0 when there is none
find(s, p) ==
    IF contains(s, p)
      THEN CHOOSE i \in 1..(Len(s) + 1) :
             /\ starts_with_at(s, p, i)
             /\ \A j \in 1..(i - 1) : ~starts_with_at(s, p, j)
      ELSE 0

\* str::split(p): the pieces between the occurrences of the non-empty p
RECURSIVE split(_, _)
split(s, p) ==
    LET i == find(s, p) IN
      IF i = 0 THEN <<s>>
      ELSE <<SubSeq(s, 1, i - 1)>> \o split(SubSeq(s, i + Len(p), Len(s)), p)

\* Iterator::last / Iterator::nth(n) (n is 0-based as in Rust)
last(xs) == IF xs = <<>> THEN None ELSE Some(xs[Len(xs)])

nth(xs, n) == IF n + 1 <= Len(xs) THEN Some(xs[n + 1]) ELSE None

\* str::split_once(p)
split_once(s, p) ==
    LET i == find(s, p) IN
      IF i = 0 THEN None
      ELSE Some(<<SubSeq(s, 1, i - 1), SubSeq(s, i + Len(p), Len(s))>>)

\* str::trim
RECURSIVE trim_start(_)
trim_start(s) ==
    IF s # <<>> /\ s[1] \in Whitespace THEN trim_start(Tail(s)) ELSE s

RECURSIVE trim_end(_)
trim_end(s) ==
    IF s # <<>> /\ s[Len(s)] \in Whitespace
      THEN trim_end(SubSeq(s, 1, Len(s) - 1)) ELSE s

trim(s) == trim_end(trim_start(s))

digit_value(c) == (CHOOSE i \in 1..Len(DigitChars) : DigitChars[i] = c) - 1

(* ------------------------------ u32 ---------------------------------- *)
U32_MAX_DIGITS == <<"4","2","9","4","9","6","7","2","9","5">>

RECURSIVE strip_zeros(_)
strip_zeros(ds) == IF Len(ds) > 1 /\ ds[1] = "0" THEN strip_zeros(Tail(ds)) ELSE ds

\* lexicographic a <= b for digit strings of equal length
RECURSIVE digits_leq(_, _)
digits_leq(a, b) ==
    IF a = <<>> THEN TRUE
    ELSE IF digit_value(a[1]) < digit_value(b[1]) THEN TRUE
    ELSE IF digit_value(a[1]) > digit_value(b[1]) THEN FALSE
    ELSE digits_leq(Tail(a), Tail(b))

RECURSIVE digits_value(_)
digits_value(ds) ==
    IF ds = <<>> THEN 0
    ELSE 10 * digits_value(SubSeq(ds, 1, Len(ds) - 1)) + digit_value(ds[Len(ds)])

\* str::parse::<u32>(): an optional '+', then one or more ASCII digits, and the
\* value must fit 32 bits; anything else is Err (None here).
parse_u32(s) ==
    LET ds == IF s # <<>> /\ s[1] = "+" THEN Tail(s) ELSE s
        z  == strip_zeros(ds)
    IN IF ds = <<>> \/ \E i \in 1..Len(ds) : ds[i] \notin Digits THEN None
       ELSE IF Len(z) > Len(U32_MAX_DIGITS) THEN None
       ELSE IF Len(z) = Len(U32_MAX_DIGITS) /\ ~digits_leq(z, U32_MAX_DIGITS) THEN None
       ELSE Some(digits_value(z))

(* ------------------------------ HashMap ------------------------------ *)
HashMap_new == <<>>

insert(m, k, v) == [x \in (DOMAIN m) \cup {k} |-> IF x = k THEN v ELSE m[x]]

get(m, k) == IF k \in DOMAIN m THEN Some(m[k]) ELSE None

or_else(o, alt) == IF is_some(o) THEN o ELSE alt

(* ------------------------------ hyper -------------------------------- *)
\* The fourteen header names extract_headers reads.
RecognizedHeaders ==
    {"content-type", "etag", "last-modified", "range", "accept",
     "accept-language", "user-agent", "authorization", "content-range", "host",
     "referer", "cache-control", "if-none-match", "if-modified-since"}

\* A header name the extractor does not read.
UnrecognizedHeaders == {"x-debug-id"}

HeaderNames == RecognizedHeaders \cup UnrecognizedHeaders

\* HeaderValue::to_str: Ok only when every octet is visible ASCII or a tab
to_str(value) ==
    IF \E i \in 1..Len(value) : value[i] = OpaqueByte THEN None ELSE Some(value)

\* HeaderMap::get
HeaderMap_get(headers_map, header_name) == headers_map[header_name]

get_header_string(headers_map, header_name) ==
    LET value == HeaderMap_get(headers_map, header_name) IN
      IF is_none(value) THEN None
      ELSE LET s == to_str(unwrap(value)) IN
             IF is_none(s) THEN None ELSE Some(trim(unwrap(s)))

\* extract_headers reading the referer field from a header outside its list
extract_headers_wrong_name(headers_map) ==
    [ content_type      |-> get_header_string(headers_map, "content-type"),
      etag              |-> get_header_string(headers_map, "etag"),
      last_modified     |-> get_header_string(headers_map, "last-modified"),
      byte_range        |-> get_header_string(headers_map, "range"),
      accept            |-> get_header_string(headers_map, "accept"),
      accept_language   |-> get_header_string(headers_map, "accept-language"),
      user_agent        |-> get_header_string(headers_map, "user-agent"),
      authorization     |-> get_header_string(headers_map, "authorization"),
      content_range     |-> get_header_string(headers_map, "content-range"),
      host              |-> get_header_string(headers_map, "host"),
      referer           |-> get_header_string(headers_map, "x-debug-id"),
      cache_control     |-> get_header_string(headers_map, "cache-control"),
      if_none_match     |-> get_header_string(headers_map, "if-none-match"),
      if_modified_since |-> get_header_string(headers_map, "if-modified-since") ]

extract_headers(headers_map) ==
    [ content_type      |-> get_header_string(headers_map, "content-type"),
      etag              |-> get_header_string(headers_map, "etag"),
      last_modified     |-> get_header_string(headers_map, "last-modified"),
      byte_range        |-> get_header_string(headers_map, "range"),
      accept            |-> get_header_string(headers_map, "accept"),
      accept_language   |-> get_header_string(headers_map, "accept-language"),
      user_agent        |-> get_header_string(headers_map, "user-agent"),
      authorization     |-> get_header_string(headers_map, "authorization"),
      content_range     |-> get_header_string(headers_map, "content-range"),
      host              |-> get_header_string(headers_map, "host"),
      referer           |-> get_header_string(headers_map, "referer"),
      cache_control     |-> get_header_string(headers_map, "cache-control"),
      if_none_match     |-> get_header_string(headers_map, "if-none-match"),
      if_modified_since |-> get_header_string(headers_map, "if-modified-since") ]

RECURSIVE insert_pairs(_, _)
insert_pairs(params, pairs) ==
    IF pairs = <<>> THEN params
    ELSE LET parts == split(pairs[1], <<"=">>)
             key   == parts[1]
             value == IF Len(parts) >= 2 THEN parts[2] ELSE <<>>
         IN insert_pairs(IF key # <<>> THEN insert(params, key, value) ELSE params,
                         Tail(pairs))

parse_query_params(query) ==
    IF is_some(query) THEN insert_pairs(HashMap_new, split(unwrap(query), <<"&">>))
    ELSE HashMap_new


(* ------------------------- content analysis -------------------------- *)
\* analyze_content: the file_extension binding
file_extension_of(path) ==
    LET path_lower == to_lowercase(path)
        ext        == last(split(path, <<".">>))
    IN IF is_some(ext) /\ unwrap(ext) # <<>> /\ ~ends_with(path_lower, unwrap(ext))
         THEN Some(to_lowercase(unwrap(ext)))
         ELSE None

detect_codec(path, query_params) ==
    LET codec      == or_else(get(query_params, <<"c","o","d","e","c">>), get(query_params, <<"c">>))
        path_lower == to_lowercase(path)
    IN IF is_some(codec) THEN Some(unwrap(codec))
       ELSE IF contains(path_lower, <<"h","2","6","4">>) \/ contains(path_lower, <<"a","v","c">>)
         THEN Some(<<"h","2","6","4">>)
       ELSE IF contains(path_lower, <<"h","2","6","5">>) \/ contains(path_lower, <<"h","e","v","c">>)
         THEN Some(<<"h","2","6","5">>)
       ELSE IF contains(path_lower, <<"v","p","9">>) THEN Some(<<"v","p","9">>)
       ELSE IF contains(path_lower, <<"a","v","1">>) THEN Some(<<"a","v","1">>)
       ELSE IF contains(path_lower, <<"a","a","c">>) THEN Some(<<"a","a","c">>)
       ELSE IF contains(path_lower, <<"m","p","3">>) THEN Some(<<"m","p","3">>)
       ELSE None

VideoExtensions == {<<"m","p","4">>, <<"a","v","i">>, <<"m","o","v">>, <<"m","k","v">>, <<"w","e","b","m">>, <<"f","l","v">>}

AudioExtensions == {<<"m","p","3">>, <<"w","a","v">>, <<"o","g","g">>, <<"f","l","a","c">>, <<"a","a","c">>, <<"m","4","a">>}

ManifestExtensions == {<<"m","3","u","8">>, <<"m","p","d">>}

SegmentExtensions == {<<"t","s">>, <<"m","4","s">>, <<"c","h","k">>}

ImageExtensions == {<<"j","p","g">>, <<"j","p","e","g">>, <<"p","n","g">>, <<"g","i","f">>, <<"w","e","b","p">>, <<"s","v","g">>, <<"b","m","p">>}

DocumentExtensions == {<<"p","d","f">>, <<"d","o","c">>, <<"d","o","c","x">>, <<"x","l","s">>, <<"x","l","s","x">>, <<"p","p","t">>, <<"p","p","t","x">>}

\* a (ContentCategory, Option<MediaType>, bool, bool) tuple
Categorized(category, media_type, is_streaming, is_init_segment) ==
    [ category        |-> category,
      media_type      |-> media_type,
      is_streaming    |-> is_streaming,
      is_init_segment |-> is_init_segment ]

MediaType(format, codec, container) ==
    [ format |-> format, codec |-> codec, container |-> container ]

\* categorize_by_path with the init arm forgetting to set is_streaming
categorize_by_path_init_not_streaming(path, query_params) ==
    IF contains(path, <<"/","v","i","d","e","o","/">>) \/ contains(path, <<"/","m","e","d","i","a","/">>)
         \/ contains(path, <<"/","m","o","v","i","e","/">>)
      THEN Categorized("Video", None, FALSE, FALSE)
    ELSE IF contains(path, <<"/","a","u","d","i","o","/">>) \/ contains(path, <<"/","m","u","s","i","c","/">>)
      THEN Categorized("Audio", None, FALSE, FALSE)
    ELSE IF contains(path, <<"/","s","t","r","e","a","m","/">>) \/ contains(path, <<"/","h","l","s","/">>)
              \/ contains(path, <<"/","d","a","s","h","/">>)
      THEN Categorized("StreamingManifest", None, TRUE, FALSE)
    ELSE IF contains(path, <<"/","s","e","g","m","e","n","t">>) \/ contains(path, <<"/","c","h","u","n","k">>)
              \/ contains(path, <<"/","f","r","a","g","m","e","n","t">>)
      THEN Categorized("MediaSegment", None, TRUE, FALSE)
    ELSE IF contains(path, <<"/","i","n","i","t">>)
              \/ (is_some(get(query_params, <<"i","n","i","t">>))
                    /\ unwrap(get(query_params, <<"i","n","i","t">>)) = <<"1">>)
      THEN Categorized("MediaSegment", None, FALSE, TRUE)
    ELSE IF contains(path, <<"/","i","m","a","g","e","/">>) \/ contains(path, <<"/","i","m","g","/">>)
      THEN Categorized("Image", None, FALSE, FALSE)
    ELSE Categorized("Other", None, FALSE, FALSE)

\* categorize_content: the `_` arm, the ordered path patterns
categorize_by_path(path, query_params) ==
    IF contains(path, <<"/","v","i","d","e","o","/">>) \/ contains(path, <<"/","m","e","d","i","a","/">>)
         \/ contains(path, <<"/","m","o","v","i","e","/">>)
      THEN Categorized("Video", None, FALSE, FALSE)
    ELSE IF contains(path, <<"/","a","u","d","i","o","/">>) \/ contains(path, <<"/","m","u","s","i","c","/">>)
      THEN Categorized("Audio", None, FALSE, FALSE)
    ELSE IF contains(path, <<"/","s","t","r","e","a","m","/">>) \/ contains(path, <<"/","h","l","s","/">>)
              \/ contains(path, <<"/","d","a","s","h","/">>)
      THEN Categorized("StreamingManifest", None, TRUE, FALSE)
    ELSE IF contains(path, <<"/","s","e","g","m","e","n","t">>) \/ contains(path, <<"/","c","h","u","n","k">>)
              \/ contains(path, <<"/","f","r","a","g","m","e","n","t">>)
      THEN Categorized("MediaSegment", None, TRUE, FALSE)
    ELSE IF contains(path, <<"/","i","n","i","t">>)
              \/ (is_some(get(query_params, <<"i","n","i","t">>))
                    /\ unwrap(get(query_params, <<"i","n","i","t">>)) = <<"1">>)
      THEN Categorized("MediaSegment", None, TRUE, TRUE)
    ELSE IF contains(path, <<"/","i","m","a","g","e","/">>) \/ contains(path, <<"/","i","m","g","/">>)
      THEN Categorized("Image", None, FALSE, FALSE)
    ELSE Categorized("Other", None, FALSE, FALSE)

\* categorize_by_extension with the segment arm also filling in a media type
categorize_by_extension_segment_media(path, ext, query_params) ==
    IF ext \in VideoExtensions
      THEN Categorized("Video",
             Some(MediaType(<<"v","i","d","e","o">>, detect_codec(path, query_params), Some(ext))),
             FALSE, FALSE)
    ELSE IF ext \in AudioExtensions
      THEN Categorized("Audio",
             Some(MediaType(<<"a","u","d","i","o">>, detect_codec(path, query_params), Some(ext))),
             FALSE, FALSE)
    ELSE IF ext \in ManifestExtensions
      THEN Categorized("StreamingManifest", None, TRUE, FALSE)
    ELSE IF ext \in SegmentExtensions
      THEN Categorized("MediaSegment",
             Some(MediaType(<<"v","i","d","e","o">>, detect_codec(path, query_params), Some(ext))),
             TRUE, FALSE)
    ELSE IF ext \in ImageExtensions THEN Categorized("Image", None, FALSE, FALSE)
    ELSE IF ext \in DocumentExtensions
      THEN Categorized("Document", None, FALSE, FALSE)
    ELSE IF ext = <<"c","s","s">> THEN Categorized("Stylesheet", None, FALSE, FALSE)
    ELSE IF ext = <<"j","s">> THEN Categorized("Script", None, FALSE, FALSE)
    ELSE IF ext \in {<<"h","t","m","l">>, <<"h","t","m">>} THEN Categorized("Html", None, FALSE, FALSE)
    ELSE IF ext = <<"j","s","o","n">> THEN Categorized("Data(Json)", None, FALSE, FALSE)
    ELSE IF ext = <<"x","m","l">> THEN Categorized("Data(Xml)", None, FALSE, FALSE)
    ELSE Categorized("Data(Text)", None, FALSE, FALSE)

\* categorize_content: the arms that match a known extension
categorize_by_extension(path, ext, query_params) ==
    IF ext \in VideoExtensions
      THEN Categorized("Video",
             Some(MediaType(<<"v","i","d","e","o">>, detect_codec(path, query_params), Some(ext))),
             FALSE, FALSE)
    ELSE IF ext \in AudioExtensions
      THEN Categorized("Audio",
             Some(MediaType(<<"a","u","d","i","o">>, detect_codec(path, query_params), Some(ext))),
             FALSE, FALSE)
    ELSE IF ext \in ManifestExtensions
      THEN Categorized("StreamingManifest", None, TRUE, FALSE)
    ELSE IF ext \in SegmentExtensions
      THEN Categorized("MediaSegment", None, TRUE, FALSE)
    ELSE IF ext \in ImageExtensions THEN Categorized("Image", None, FALSE, FALSE)
    ELSE IF ext \in DocumentExtensions
      THEN Categorized("Document", None, FALSE, FALSE)
    ELSE IF ext = <<"c","s","s">> THEN Categorized("Stylesheet", None, FALSE, FALSE)
    ELSE IF ext = <<"j","s">> THEN Categorized("Script", None, FALSE, FALSE)
    ELSE IF ext \in {<<"h","t","m","l">>, <<"h","t","m">>} THEN Categorized("Html", None, FALSE, FALSE)
    ELSE IF ext = <<"j","s","o","n">> THEN Categorized("Data(Json)", None, FALSE, FALSE)
    ELSE IF ext = <<"x","m","l">> THEN Categorized("Data(Xml)", None, FALSE, FALSE)
    ELSE Categorized("Data(Text)", None, FALSE, FALSE)

KnownExtensions ==
    VideoExtensions \cup AudioExtensions \cup ManifestExtensions
      \cup SegmentExtensions \cup ImageExtensions \cup DocumentExtensions
      \cup {<<"c","s","s">>, <<"j","s">>, <<"h","t","m","l">>, <<"h","t","m">>, <<"j","s","o","n">>, <<"x","m","l">>, <<"t","x","t">>}

categorize_content(path, file_extension, query_params) ==
    IF is_some(file_extension) /\ unwrap(file_extension) \in KnownExtensions
      THEN categorize_by_extension(path, unwrap(file_extension), query_params)
      ELSE categorize_by_path(path, query_params)


(* ------------------------------ regex -------------------------------- *)
\* A pattern of the regex crate is a sequence of elements: a literal, a greedy
\* repetition of a character class, an alternation of literals, the bounds of
\* capture group 1, and the end anchor.
Lit(s) == [t |-> "lit", s |-> s]

\* max < 0: no upper limit
Rep(set, min, max) == [t |-> "rep", set |-> set, min |-> min, max |-> max]

Alt(alts) == [t |-> "alt", alts |-> alts]

Open == [t |-> "open"]

Close == [t |-> "close"]

EndAnchor == [t |-> "end"]

\* number of consecutive characters of `set` from position pos, at most max
RECURSIVE run_length(_, _, _, _)
run_length(s, pos, set, max) ==
    IF max = 0 \/ pos > Len(s) \/ s[pos] \notin set THEN 0
    ELSE 1 + run_length(s, pos + 1, set, max - 1)

\* Backtracking match of elements k.. of re at position pos; cap is the pair
\* <<start, end>> of group 1 so far.  Some(cap) on the first success in the
\* engine's preference order (greedy repetitions, alternatives left to right).
RECURSIVE match_from(_, _, _, _, _)
RECURSIVE try_counts(_, _, _, _, _, _)
RECURSIVE try_alts(_, _, _, _, _, _)
match_from(re, s, k, pos, cap) ==
    IF k > Len(re) THEN Some(cap)
    ELSE LET e == re[k] IN
      CASE e.t = "lit" ->
             IF starts_with_at(s, e.s, pos)
               THEN match_from(re, s, k + 1, pos + Len(e.s), cap) ELSE None
        [] e.t = "rep" ->
             try_counts(re, s, k, pos, cap, run_length(s, pos, e.set, e.max))
        [] e.t = "alt" -> try_alts(re, s, k, pos, cap, 1)
        [] e.t = "open" -> match_from(re, s, k + 1, pos, <<pos, cap[2]>>)
        [] e.t = "close" -> match_from(re, s, k + 1, pos, <<cap[1], pos>>)
        [] e.t = "end" ->
             IF pos = Len(s) + 1 THEN match_from(re, s, k + 1, pos, cap) ELSE None

try_counts(re, s, k, pos, cap, n) ==
    IF n < re[k].min THEN None
    ELSE LET r == match_from(re, s, k + 1, pos + n, cap) IN
           IF is_some(r) THEN r ELSE try_counts(re, s, k, pos, cap, n - 1)

try_alts(re, s, k, pos, cap, a) ==
    IF a > Len(re[k].alts) THEN None
    ELSE LET lit == re[k].alts[a]
             r   == IF starts_with_at(s, lit, pos)
                      THEN match_from(re, s, k + 1, pos + Len(lit), cap) ELSE None
         IN IF is_some(r) THEN r ELSE try_alts(re, s, k, pos, cap, a + 1)

\* Regex::captures(s) then captures.get(1): the text of group 1 in the leftmost
\* match, None when the pattern matches nowhere.
RECURSIVE captures_from(_, _, _)
captures_from(re, s, i) ==
    IF i > Len(s) + 1 THEN None
    ELSE LET r == match_from(re, s, 1, i, <<0, 0>>) IN
           IF is_some(r) THEN Some(SubSeq(s, unwrap(r)[1], unwrap(r)[2] - 1))
           ELSE captures_from(re, s, i + 1)

captures(re, s) == captures_from(re, s, 1)

SepOpt == Rep({"_", "-"}, 0, 1)

DigitsPlus == Rep(Digits, 1, -1)

\* extract_segment_info: the index patterns, in order
IndexPatterns ==
    << <<Lit(<<"s","e","g","m","e","n","t">>), SepOpt, Open, DigitsPlus, Close>>,
       <<Lit(<<"c","h","u","n","k">>), SepOpt, Open, DigitsPlus, Close>>,
       <<Lit(<<"/">>), Open, DigitsPlus, Close, Lit(<<".">>), Alt(<<<<"t","s">>, <<"m","4","s">>, <<"c","h","k">>>>)>>,
       <<Lit(<<"s","e","g">>), SepOpt, Open, DigitsPlus, Close>>,
       <<Open, DigitsPlus, Close, Lit(<<"_">>), DigitsPlus, Lit(<<".","t","s">>)>>,
       <<Lit(<<"f","r","a","g","m","e","n","t">>), SepOpt, Open, DigitsPlus, Close>> >>

\* extract_segment_info: the sequence-number patterns, in order
SequencePatterns ==
    << <<Lit(<<"_">>), Open, DigitsPlus, Close, Lit(<<".","t","s">>), EndAnchor>>,
       <<Lit(<<"s","e","q">>), SepOpt, Open, DigitsPlus, Close>>,
       <<Lit(<<"s","e","q","u","e","n","c","e">>), SepOpt, Open, DigitsPlus, Close>> >>

\* extract_resolution_from_path: the patterns, in order
ResolutionPatterns ==
    << <<Open, Rep(Digits, 3, 4), Rep({"x", "p"}, 1, 1), Close>>,
       <<Open, Rep(Digits, 3, 4), Lit(<<"x">>), Rep(Digits, 3, 4), Close>>,
       <<Open, Alt(<<<<"h","d">>, <<"s","d">>, <<"f","u","l","l","h","d">>, <<"4","k">>, <<"2","k">>, <<"u","h","d">>>>), Close>>,
       <<Lit(<<"/">>), Open, DigitsPlus, Lit(<<"p">>), Close, Lit(<<"/">>)>> >>

RECURSIVE extract_number_from_path(_, _)
extract_number_from_path(path, patterns) ==
    IF patterns = <<>> THEN None
    ELSE LET matched == captures(patterns[1], path)
             num     == IF is_some(matched) THEN parse_u32(unwrap(matched)) ELSE None
         IN IF is_some(num) THEN num
            ELSE extract_number_from_path(path, Tail(patterns))


(* --------------------------- segment info ---------------------------- *)
\* str::parse::<f32>() on the plain decimal forms (digits, optional fraction);
\* the value is kept as <<integer part, fraction digits without trailing zeros>>.
RECURSIVE strip_trailing_zeros(_)
strip_trailing_zeros(ds) ==
    IF ds # <<>> /\ ds[Len(ds)] = "0"
      THEN strip_trailing_zeros(SubSeq(ds, 1, Len(ds) - 1)) ELSE ds

parse_f32(s) ==
    LET parts == split(s, <<".">>)
        all_digits(t) == \A i \in 1..Len(t) : t[i] \in Digits
    IN IF Len(parts) = 1 /\ parts[1] # <<>> /\ all_digits(parts[1])
         THEN Some(<<strip_zeros(parts[1]), <<>> >>)
       ELSE IF Len(parts) = 2 /\ (parts[1] \o parts[2]) # <<>>
                 /\ all_digits(parts[1]) /\ all_digits(parts[2])
         THEN Some(<<strip_zeros(IF parts[1] = <<>> THEN <<"0">> ELSE parts[1]),
                     strip_trailing_zeros(parts[2])>>)
       ELSE None

extract_segment_info_query_first(path, query_params) ==
    LET from_path  == extract_number_from_path(path, IndexPatterns)
        sequence   == extract_number_from_path(path, SequencePatterns)
        from_query == or_else(get(query_params, <<"s","e","g","m","e","n","t">>),
                        or_else(get(query_params, <<"s","e","g">>), get(query_params, <<"i","n","d","e","x">>)))
        parsed     == IF is_some(from_query) THEN parse_u32(unwrap(from_query)) ELSE None
        index      == IF is_some(parsed) THEN parsed ELSE from_path
        duration   == IF is_some(get(query_params, <<"d","u","r","a","t","i","o","n">>))
                        THEN parse_f32(unwrap(get(query_params, <<"d","u","r","a","t","i","o","n">>)))
                        ELSE None
    IN Some([ index           |-> index,
              sequence_number |-> sequence,
              is_chunk        |-> contains(path, <<"c","h","u","n","k">>),
              duration        |-> duration ])

extract_segment_info(path, query_params) ==
    LET from_path  == extract_number_from_path(path, IndexPatterns)
        sequence   == extract_number_from_path(path, SequencePatterns)
        from_query == or_else(get(query_params, <<"s","e","g","m","e","n","t">>),
                        or_else(get(query_params, <<"s","e","g">>), get(query_params, <<"i","n","d","e","x">>)))
        index      == IF is_none(from_path)
                        THEN (IF is_some(from_query) THEN parse_u32(unwrap(from_query))
                              ELSE None)
                        ELSE from_path
        duration   == IF is_some(get(query_params, <<"d","u","r","a","t","i","o","n">>))
                        THEN parse_f32(unwrap(get(query_params, <<"d","u","r","a","t","i","o","n">>)))
                        ELSE None
    IN Some([ index           |-> index,
              sequence_number |-> sequence,
              is_chunk        |-> contains(path, <<"c","h","u","n","k">>),
              duration        |-> duration ])

(* --------------------------- quality info ---------------------------- *)
Resolution(width, height, label) ==
    [ width |-> width, height |-> height, label |-> label ]

parse_resolution(res_str) ==
    LET res_lower == to_lowercase(res_str)
        wh        == split_once(res_lower, <<"x">>)
        width     == IF is_some(wh) THEN parse_u32(unwrap(wh)[1]) ELSE None
        height    == IF is_some(wh) THEN parse_u32(unwrap(wh)[2]) ELSE None
    IN IF is_some(wh) /\ is_some(width) /\ is_some(height)
         THEN Some(Resolution(width, height, res_str))
       ELSE IF res_lower \in {<<"4","k">>, <<"2","1","6","0","p">>, <<"u","h","d">>}
         THEN Some(Resolution(Some(3840), Some(2160), <<"4","K">>))
       ELSE IF res_lower \in {<<"2","k">>, <<"1","4","4","0","p">>}
         THEN Some(Resolution(Some(2560), Some(1440), <<"2","K">>))
       ELSE IF res_lower \in {<<"1","0","8","0","p">>, <<"f","u","l","l","h","d">>}
         THEN Some(Resolution(Some(1920), Some(1080), <<"1","0","8","0","p">>))
       ELSE IF res_lower \in {<<"7","2","0","p">>, <<"h","d">>}
         THEN Some(Resolution(Some(1280), Some(720), <<"7","2","0","p">>))
       ELSE IF res_lower \in {<<"4","8","0","p">>, <<"s","d">>}
         THEN Some(Resolution(Some(854), Some(480), <<"4","8","0","p">>))
       ELSE IF res_lower = <<"3","6","0","p">> THEN Some(Resolution(Some(640), Some(360), <<"3","6","0","p">>))
       ELSE IF res_lower = <<"2","4","0","p">> THEN Some(Resolution(Some(426), Some(240), <<"2","4","0","p">>))
       ELSE IF res_lower = <<"1","4","4","p">> THEN Some(Resolution(Some(256), Some(144), <<"1","4","4","p">>))
       ELSE Some(Resolution(None, None, res_str))

RECURSIVE resolution_from_patterns(_, _)
resolution_from_patterns(path, patterns) ==
    IF patterns = <<>> THEN None
    ELSE LET matched == captures(patterns[1], path) IN
           IF is_some(matched) THEN parse_resolution(unwrap(matched))
           ELSE resolution_from_patterns(path, Tail(patterns))

extract_resolution_from_path(path) ==
    resolution_from_patterns(path, ResolutionPatterns)

\* quality_param consulting the parameters in the reverse order
quality_param_reversed(query_params) ==
    or_else(get(query_params, <<"q">>),
      or_else(get(query_params, <<"q","u","a","l","i","t","y">>),
        or_else(get(query_params, <<"r","e","s">>), get(query_params, <<"r","e","s","o","l","u","t","i","o","n">>))))

\* extract_quality_info: the resolution/res/quality/q lookup
quality_param(query_params) ==
    or_else(get(query_params, <<"r","e","s","o","l","u","t","i","o","n">>),
      or_else(get(query_params, <<"r","e","s">>),
        or_else(get(query_params, <<"q","u","a","l","i","t","y">>), get(query_params, <<"q">>))))

\* extract_quality_info: the bitrate/br/rate lookup
bitrate_param(query_params) ==
    or_else(get(query_params, <<"b","i","t","r","a","t","e">>),
      or_else(get(query_params, <<"b","r">>), get(query_params, <<"r","a","t","e">>)))

\* extract_quality_info: the label taken from the Accept header, None when the
\* header is absent or holds no "q="
RECURSIVE accept_quality_label(_)
accept_quality_label(parts) ==
    IF parts = <<>> THEN None
    ELSE IF contains(parts[1], <<"q","=">>)
      THEN LET q_value == nth(split(parts[1], <<"q","=">>), 1) IN
             IF is_some(q_value)
               THEN Some(<<"q">> \o split(unwrap(q_value), <<";">>)[1])
               ELSE accept_quality_label(Tail(parts))
    ELSE accept_quality_label(Tail(parts))

extract_quality_info(path, query_params, headers) ==
    LET res_str    == quality_param(query_params)
        from_query == IF is_some(res_str) THEN parse_resolution(unwrap(res_str)) ELSE None
        label0     == IF is_some(res_str) THEN Some(unwrap(res_str)) ELSE None
        resolution == IF is_none(from_query) THEN extract_resolution_from_path(path)
                      ELSE from_query
        from_accept == IF is_some(headers.accept) /\ contains(unwrap(headers.accept), <<"q","=">>)
                         THEN accept_quality_label(split(unwrap(headers.accept), <<",">>))
                         ELSE None
    IN [ resolution    |-> resolution,
         bitrate       |-> bitrate_param(query_params),
         quality_label |-> IF is_some(from_accept) THEN from_accept ELSE label0 ]

analyze_content(path, query_params, headers) ==
    LET path_lower     == to_lowercase(path)
        file_extension == file_extension_of(path)
        cat            == categorize_content(path_lower, file_extension, query_params)
        segment_info   == IF cat.is_streaming
                            THEN extract_segment_info(path_lower, query_params)
                            ELSE None
    IN [ content_category |-> cat.category,
         media_type       |-> cat.media_type,
         file_extension   |-> file_extension,
         is_streaming     |-> cat.is_streaming,
         is_init_segment  |-> cat.is_init_segment,
         segment_info     |-> segment_info,
         quality_info     |-> extract_quality_info(path_lower, query_params, headers) ]


(* --------------------------- DefaultHasher --------------------------- *)
\* The printable ASCII characters, 0x20 to 0x7E, in code order (the grave
\* accent, 0x60, is written "\\x60").
AsciiPrintable ==
    << " ", "!", "\"", "#", "$", "%", "&", "'", "(", ")", "*", "+", ",", "-", ".", "/",
       "0", "1", "2", "3", "4", "5", "6", "7", "8", "9", ":", ";", "<", "=", ">", "?",
       "@", "A", "B", "C", "D", "E", "F", "G", "H", "I", "J", "K", "L", "M", "N", "O",
       "P", "Q", "R", "S", "T", "U", "V", "W", "X", "Y", "Z", "[", "\\", "]", "^", "_",
       "\\x60", "a", "b", "c", "d", "e", "f", "g", "h", "i", "j", "k", "l", "m", "n", "o",
       "p", "q", "r", "s", "t", "u", "v", "w", "x", "y", "z", "{", "|", "}", "~" >>

\* the octet of a character of a &str
byte_of(c) ==
    IF c = "\t" THEN 9
    ELSE 31 + (CHOOSE i \in 1..Len(AsciiPrintable) : AsciiPrintable[i] = c)

\* A u64 is four 16-bit limbs, least significant first.
RECURSIVE xor16(_, _)
xor16(a, b) ==
    IF a = 0 THEN b
    ELSE IF b = 0 THEN a
    ELSE 2 * xor16(a \div 2, b \div 2) + (((a % 2) + (b % 2)) % 2)

xor64(x, y) == <<xor16(x[1], y[1]), xor16(x[2], y[2]), xor16(x[3], y[3]), xor16(x[4], y[4])>>

\* u64::wrapping_add
add64(x, y) ==
    LET s1 == x[1] + y[1]
        s2 == x[2] + y[2] + (s1 \div 65536)
        s3 == x[3] + y[3] + (s2 \div 65536)
        s4 == x[4] + y[4] + (s3 \div 65536)
    IN <<s1 % 65536, s2 % 65536, s3 % 65536, s4 % 65536>>

\* u64::rotate_left
rotl64(x, r) ==
    LET q == r \div 16
        b == r % 16
        limb(i) == x[((i - 1) % 4) + 1]
        out(i)  == ((limb((i - q) + 4) * (2 ^ b)) % 65536)
                     + (limb((i - q - 1) + 4) \div (2 ^ (16 - b)))
    IN <<out(1), out(2), out(3), out(4)>>

\* core::hash::sip Sip13Rounds, one compression round on <<v0, v1, v2, v3>>
sip_round(v) ==
    LET a0 == add64(v[1], v[2])
        a1 == xor64(rotl64(v[2], 13), a0)
        b0 == rotl64(a0, 32)
        a2 == add64(v[3], v[4])
        a3 == xor64(rotl64(v[4], 16), a2)
        c0 == add64(b0, a3)
        c3 == xor64(rotl64(a3, 21), c0)
        c2 == add64(a2, a1)
        c1 == xor64(rotl64(a1, 17), c2)
    IN <<c0, c1, rotl64(c2, 32), c3>>

\* the little-endian u64 of up to eight octets
word_of_bytes(bs) ==
    LET byte(i) == IF i <= Len(bs) THEN bs[i] ELSE 0
        limb(i) == byte(2 * i - 1) + 256 * byte(2 * i)
    IN <<limb(1), limb(2), limb(3), limb(4)>>

\* v3 ^= m; one c-round; v0 ^= m
sip_compress(v, m) ==
    LET w == sip_round(<<v[1], v[2], v[3], xor64(v[4], m)>>)
    IN <<xor64(w[1], m), w[2], w[3], w[4]>>

RECURSIVE sip_blocks(_, _)
sip_blocks(v, bytes) ==
    IF Len(bytes) < 8 THEN v
    ELSE sip_blocks(sip_compress(v, word_of_bytes(SubSeq(bytes, 1, 8))),
                    SubSeq(bytes, 9, Len(bytes)))

\* DefaultHasher::new() is SipHasher13 with the keys (0, 0); finish() of the
\* octets written so far.
DefaultHasher_finish(bytes) ==
    LET v_init == << <<25973, 28787, 28005, 29551>>,     \* 0x736f6d6570736575
                     <<28525, 28260, 29281, 25711>>,     \* 0x646f72616e646f6d
                     <<29281, 28261, 26469, 27769>>,     \* 0x6c7967656e657261
                     <<25971, 31092, 25698, 29797>> >>   \* 0x7465646279746573
        v      == sip_blocks(v_init, bytes)
        tail   == SubSeq(bytes, (Len(bytes) - (Len(bytes) % 8)) + 1, Len(bytes))
        t      == word_of_bytes(tail)
        b      == <<t[1], t[2], t[3], t[4] + (256 * (Len(bytes) % 256))>>
        w      == sip_compress(v, b)
        f      == sip_round(sip_round(sip_round(
                    <<w[1], w[2], xor64(w[3], <<255, 0, 0, 0>>), w[4]>>)))
    IN xor64(xor64(f[1], f[2]), xor64(f[3], f[4]))

HexChars == <<"0","1","2","3","4","5","6","7","8","9","a","b","c","d","e","f">>

\* format!("{:x}", u64): lower-case hexadecimal without leading zeros
format_hex(x) ==
    LET nibble(k) == (x[4 - ((k - 1) \div 4)] \div (16 ^ (3 - ((k - 1) % 4)))) % 16
        all == [k \in 1..16 |-> HexChars[nibble(k) + 1]]
        nz  == {k \in 1..16 : nibble(k) # 0}
    IN IF nz = {} THEN <<"0">>
       ELSE SubSeq(all, CHOOSE k \in nz : \A j \in nz : k <= j, 16)

\* impl Hash for str: the octets of s, then 0xFF
RECURSIVE str_hash_bytes(_)
str_hash_bytes(s) ==
    IF s = <<>> THEN <<255>> ELSE <<byte_of(s[1])>> \o str_hash_bytes(Tail(s))

simple_hash(s) == format_hex(DefaultHasher_finish(str_hash_bytes(s)))


(* ------------------------- auth and network -------------------------- *)
\* extract_auth_info hashing the credentials only, without the scheme
extract_auth_info_credentials_only(headers) ==
    IF is_none(headers.authorization) THEN None
    ELSE LET auth == unwrap(headers.authorization)
             cred == split_once(auth, <<" ">>)
         IN
      Some([ auth_type     |-> IF starts_with(auth, <<"B","e","a","r","e","r"," ">>) THEN <<"b","e","a","r","e","r">>
                               ELSE IF starts_with(auth, <<"B","a","s","i","c"," ">>) THEN <<"b","a","s","i","c">>
                               ELSE IF starts_with(auth, <<"D","i","g","e","s","t"," ">>) THEN <<"d","i","g","e","s","t">>
                               ELSE <<"u","n","k","n","o","w","n">>,
             auth_hash     |-> simple_hash(IF is_some(cred) THEN unwrap(cred)[2] ELSE auth),
             requires_auth |-> TRUE ])

extract_auth_info(headers) ==
    IF is_none(headers.authorization) THEN None
    ELSE LET auth == unwrap(headers.authorization) IN
      Some([ auth_type     |-> IF starts_with(auth, <<"B","e","a","r","e","r"," ">>) THEN <<"b","e","a","r","e","r">>
                               ELSE IF starts_with(auth, <<"B","a","s","i","c"," ">>) THEN <<"b","a","s","i","c">>
                               ELSE IF starts_with(auth, <<"D","i","g","e","s","t"," ">>) THEN <<"d","i","g","e","s","t">>
                               ELSE <<"u","n","k","n","o","w","n">>,
             auth_hash     |-> simple_hash(auth),
             requires_auth |-> TRUE ])

\* u8 / u16 Display: decimal without leading zeros
RECURSIVE to_decimal(_)
to_decimal(n) ==
    IF n < 10 THEN <<DigitChars[n + 1]>>
    ELSE to_decimal(n \div 10) \o <<DigitChars[(n % 10) + 1]>>

\* Ipv4Addr Display
Ipv4Addr_to_string(ip) ==
    to_decimal(ip[1]) \o <<".">> \o to_decimal(ip[2]) \o <<".">> \o to_decimal(ip[3])
      \o <<".">> \o to_decimal(ip[4])

\* {:x} of one 16-bit segment: lower-case hexadecimal without leading zeros
segment_hex(n) ==
    IF n >= 4096 THEN <<HexChars[(n \div 4096) + 1], HexChars[((n \div 256) % 16) + 1],
                        HexChars[((n \div 16) % 16) + 1], HexChars[(n % 16) + 1]>>
    ELSE IF n >= 256 THEN <<HexChars[(n \div 256) + 1], HexChars[((n \div 16) % 16) + 1],
                            HexChars[(n % 16) + 1]>>
    ELSE IF n >= 16 THEN <<HexChars[(n \div 16) + 1], HexChars[(n % 16) + 1]>>
    ELSE <<HexChars[n + 1]>>

\* segments i..j in hexadecimal, joined by ':'
RECURSIVE fmt_subslice(_, _, _)
fmt_subslice(ip, i, j) ==
    IF i > j THEN <<>>
    ELSE IF i = j THEN segment_hex(ip[i])
    ELSE segment_hex(ip[i]) \o <<":">> \o fmt_subslice(ip, i + 1, j)

\* Ipv6Addr Display: an IPv4-mapped address as ::ffff:a.b.c.d, otherwise the
\* first longest run of two or more zero segments is written as ::
Ipv6Addr_to_string(ip) ==
    LET run(i)  == CHOOSE n \in 0..8 :
                     /\ \A k \in i..(i + n - 1) : k <= 8 /\ ip[k] = 0
                     /\ (i + n > 8 \/ ip[i + n] # 0)
        longest == CHOOSE i \in 1..8 :
                     \A j \in 1..8 : run(j) < run(i) \/ (run(j) = run(i) /\ i <= j)
    IN IF SubSeq(ip, 1, 6) = <<0, 0, 0, 0, 0, 65535>>
         THEN <<":", ":", "f", "f", "f", "f", ":">>
                \o Ipv4Addr_to_string(<<ip[7] \div 256, ip[7] % 256, ip[8] \div 256, ip[8] % 256>>)
       ELSE IF run(longest) > 1
         THEN fmt_subslice(ip, 1, longest - 1) \o <<":", ":">>
                \o fmt_subslice(ip, longest + run(longest), 8)
       ELSE fmt_subslice(ip, 1, 8)

\* IpAddr Display; an address is four octets (V4) or eight segments (V6)
IpAddr_to_string(ip) ==
    IF Len(ip) = 4 THEN Ipv4Addr_to_string(ip) ELSE Ipv6Addr_to_string(ip)

\* IpAddr::is_loopback: 127.0.0.0/8 for V4, ::1 for V6
is_loopback(ip) ==
    IF Len(ip) = 4 THEN ip[1] = 127 ELSE ip = <<0, 0, 0, 0, 0, 0, 0, 1>>

extract_network_info(client_addr, headers) ==
    [ client_ip |-> IpAddr_to_string(client_addr.ip),
      port      |-> client_addr.port,
      is_local  |-> is_loopback(client_addr.ip),
      protocol  |-> IF is_none(headers.host) THEN None
                    ELSE IF starts_with(unwrap(headers.host), <<"h","t","t","p","s",":","/","/">>)
                      THEN Some(<<"h","t","t","p","s">>)
                    ELSE IF starts_with(unwrap(headers.host), <<"h","t","t","p",":","/","/">>)
                      THEN Some(<<"h","t","t","p">>)
                    ELSE None ]

(* --------------------------- from_request ---------------------------- *)
\* A request is [method, uri: [path, query], headers: HeaderNames -> Option]
\* and arrives from client_addr: [ip, port].
from_request(r) ==
    LET headers      == extract_headers(r.headers)
        path         == r.uri.path
        query_params == parse_query_params(r.uri.query)
    IN [ client_addr    |-> r.client_addr,
         request_method |-> r.method,
         request_uri    |-> r.uri,
         path           |-> path,
         query_params   |-> query_params,
         headers        |-> headers,
         content_info   |-> analyze_content(path, query_params, headers),
         auth_info      |-> extract_auth_info(headers),
         network_info   |-> extract_network_info(r.client_addr, headers) ]


(* ----------------------------- accessors ----------------------------- *)
is_media_request(c) == c.content_info.content_category \in {"Video", "Audio"}

is_streaming_request(c) == c.content_info.is_streaming

has_authorization(c) == is_some(c.auth_info)

CachePriority == {"Critical", "High", "Medium", "Normal", "Low"}

get_cache_priority(c) ==
    IF is_streaming_request(c) THEN "High"
    ELSE IF is_media_request(c) THEN "Medium"
    ELSE IF has_authorization(c) THEN "Low"
    ELSE "Normal"

should_cache_local_only(c) == ~has_authorization(c) /\ c.network_info.is_local

should_cache(c) == ~has_authorization(c) \/ c.network_info.is_local

(* ------------------------------ inputs ------------------------------- *)
\* Bounds of the request space.
MaxDirs == 2

MaxParams == 2

\* all sequences over S of length at most n
RECURSIVE SeqsUpTo(_, _)
SeqsUpTo(S, n) ==
    IF n = 0 THEN {<<>>}
    ELSE LET shorter == SeqsUpTo(S, n - 1) IN
           shorter \cup {<<x>> \o t : x \in S, t \in {u \in shorter : Len(u) = n - 1}}

\* parts joined by sep, each part preceded by sep
RECURSIVE prefixed(_, _)
prefixed(sep, parts) ==
    IF parts = <<>> THEN <<>> ELSE sep \o parts[1] \o prefixed(sep, Tail(parts))

DirNames == {<<"v","i","d","e","o">>, <<"v","i","d","e","o","s">>, <<"h","l","s">>, <<"s","t","r","e","a","m">>, <<"a","u","d","i","o">>, <<"i","n","i","t">>}

Stems == {<<"m","o","v","i","e">>, <<"s","e","g","m","e","n","t","_","4","2">>, <<"4","2">>, <<"A","v","1">>}

Exts == {<<>>, <<".">>, <<".","m","p","4">>, <<".","M","P","4">>, <<".","t","s">>, <<".","T","S">>, <<".","M","4","s">>, <<".","M","p","3">>, <<".","M","3","U","8">>}

\* paths /dir.../stem.ext
ClassifierPaths ==
    {prefixed(<<"/">>, d) \o <<"/">> \o s \o e :
        d \in SeqsUpTo(DirNames, MaxDirs), s \in Stems, e \in Exts}

ClassifierQueries ==
    {None, Some(<<"c","o","d","e","c","=","h","2","6","5","&","r","e","s","o","l","u","t","i","o","n","=","1","0","8","0","p">>), Some(<<"c","=","v","p","9">>), Some(<<"i","n","i","t","=","1">>)}

NoHeaders == [h \in HeaderNames |-> None]

DefaultAddr == [ip |-> <<10, 0, 0, 2>>, port |-> 50000]

LoopbackAddr == [ip |-> <<127, 0, 0, 1>>, port |-> 8080]

Ipv6Addr == [ip |-> <<8193, 3512, 0, 0, 1, 0, 0, 1>>, port |-> 50000]

Ipv6LoopbackAddr == [ip |-> <<0, 0, 0, 0, 0, 0, 0, 1>>, port |-> 8080]

\* ::ffff:127.0.0.1, the V6 form of a V4 loopback peer
MappedLoopbackAddr == [ip |-> <<0, 0, 0, 0, 0, 65535, 32512, 1>>, port |-> 8080]

Request(method, path, query, headers, addr) ==
    [ method |-> method, uri |-> [path |-> path, query |-> query],
      headers |-> headers, client_addr |-> addr ]

\* requests that exercise the classifier: many paths, a few queries
ClassifierRequests ==
    {Request("GET", p, q, NoHeaders, DefaultAddr) :
        p \in ClassifierPaths, q \in ClassifierQueries}

QualityPairs ==
    {<<"r","e","s","o","l","u","t","i","o","n","=","1","0","8","0","p">>, <<"r","e","s","o","l","u","t","i","o","n","=","b","e","s","t">>, <<"r","e","s","=","6","4","0","X","4","8","0">>, <<"r","e","s","=","7","2","0","p">>,
     <<"q","u","a","l","i","t","y","=","b","e","s","t">>, <<"q","u","a","l","i","t","y","=","h","d">>, <<"q","=","4","K">>, <<"q","=","l","o","w">>, <<"b","r","=","5","0","0","0">>}

\* query strings of at most MaxParams key=value pairs
QualityQueries ==
    {None} \cup
    {Some(SubSeq(prefixed(<<"&">>, ps), 2, Len(prefixed(<<"&">>, ps)))) :
        ps \in SeqsUpTo(QualityPairs, MaxParams) \ {<<>>}}

QualityPaths ==
    {<<"/","v","/","c","l","i","p">>, <<"/","v","/","7","2","0","p","/","c","l","i","p">>, <<"/","v","/","1","9","2","0","x","1","0","8","0","/","C","l","i","p",".","M","P","4">>, <<"/","u","h","d","/","s","e","g","_","7",".","T","S">>}

AcceptValues ==
    {None, Some(<<"t","e","x","t","/","h","t","m","l">>), Some(<<"v","i","d","e","o","/","*",";","q","=","0",".","9",";","v","=","1",","," ","*","/","*",";","q","=","0",".","1">>),
     Some(<<"t","e","x","t","/","h","t","m","l",","," ","*","/","*",";","q","=","0",".","8">>)}

\* requests that exercise quality extraction: many queries, Accept headers
QualityRequests ==
    {Request("GET", p, q, [NoHeaders EXCEPT !["accept"] = a], DefaultAddr) :
        p \in QualityPaths, q \in QualityQueries, a \in AcceptValues}

AuthorizationValues ==
    {None, Some(<<OpaqueByte, OpaqueByte>>), Some(<<"B","e","a","r","e","r"," ","a","b","c">>), Some(<<" ","B","e","a","r","e","r"," ","a","b","c"," ">>),
     Some(<<"B","a","s","i","c"," ","d","X","N","l">>), Some(<<"t","o","k","e","n">>)}

DebugIdValues == {None, Some(<<"1">>), Some(<<"2">>)}

HostValues == {None, Some(<<"h","t","t","p","s",":","/","/","a",".","b">>), Some(<<"a",".","b">>)}

\* requests that exercise header extraction: many header maps, both kinds of peer
HeaderRequests ==
    {Request("GET", p, None,
             [NoHeaders EXCEPT !["authorization"] = au, !["x-debug-id"] = d,
                               !["host"] = h, !["accept"] = a],
             addr) :
        p \in {<<"/","a","p","i","/","d","a","t","a",".","J","s","o","n">>, <<"/","v","i","d","e","o","/","C","l","i","p",".","M","P","4">>},
        au \in AuthorizationValues, d \in DebugIdValues, h \in HostValues,
        a \in {None, Some(<<"*","/","*",";","q","=","0",".","5">>)}, addr \in {DefaultAddr, LoopbackAddr}}

SegmentPairs ==
    {<<"s","e","g","m","e","n","t","=","5">>, <<"s","e","g","m","e","n","t","=","a","b","c">>, <<"s","e","g","=","6">>, <<"i","n","d","e","x","=","7">>, <<"d","u","r","a","t","i","o","n","=","2",".","5">>}

\* query strings of at most MaxParams key=value pairs
SegmentQueries ==
    {None} \cup
    {Some(SubSeq(prefixed(<<"&">>, ps), 2, Len(prefixed(<<"&">>, ps)))) :
        ps \in SeqsUpTo(SegmentPairs, MaxParams) \ {<<>>}}

\* paths that hold tokens of several index patterns, a number too large for
\* u32, no number at all, and one path that is not streaming
SegmentPaths ==
    {<<"/","h","l","s","/","s","e","g","m","e","n","t","_","4","2",".","t","s">>, <<"/","h","l","s","/","c","h","u","n","k","-","7","/","s","e","g","_","3",".","t","s">>, <<"/","h","l","s","/","s","e","g","_","3","/","c","h","u","n","k","-","7",".","t","s">>,
     <<"/","h","l","s","/","c","h","u","n","k","_","5","/","s","e","g","m","e","n","t","-","6",".","t","s">>, <<"/","h","l","s","/","s","e","g","m","e","n","t","_","9","9","9","9","9","9","9","9","9","9","9","/","5",".","T","S">>,
     <<"/","d","a","s","h","/","1","2","_","3","4",".","t","s">>, <<"/","h","l","s","/","f","r","a","g","m","e","n","t","7">>, <<"/","h","l","s","/","l","i","v","e">>, <<"/","v","o","d","/","s","e","g","-","8",".","M","4","S">>,
     <<"/","v","o","d","/","9",".","t","s">>}

\* requests that exercise segment extraction
SegmentRequests ==
    {Request("GET", p, q, NoHeaders, DefaultAddr) :
        p \in SegmentPaths, q \in SegmentQueries}

CachePaths ==
    {<<"/","a","p","i","/","d","a","t","a",".","J","s","o","n">>, <<"/","v","i","d","e","o","/","C","l","i","p",".","M","P","4">>, <<"/","a","u","d","i","o","/","S","o","n","g",".","M","p","3">>, <<"/","h","l","s","/","l","i","v","e">>}

PeerAddrs ==
    {DefaultAddr, LoopbackAddr, Ipv6Addr, Ipv6LoopbackAddr, MappedLoopbackAddr}

\* requests that exercise the caching decisions: every kind of Authorization
\* value from every kind of peer, for plain, media and streaming content
CacheRequests ==
    {Request("GET", p, None, [NoHeaders EXCEPT !["authorization"] = au], addr) :
        p \in CachePaths, au \in AuthorizationValues, addr \in PeerAddrs}

Requests ==
    ClassifierRequests \cup QualityRequests \cup HeaderRequests \cup SegmentRequests
      \cup CacheRequests

(* ------------------------------ machine ------------------------------ *)

\* HttpContext::from_request(&req, client_addr)
FromRequest ==
    /\ ctx = None
    /\ ctx' = Some(from_request(req))
    /\ UNCHANGED req

Next == FromRequest

\* A request has arrived and no context has been built for it yet.
Init == req \in Requests /\ ctx = None

InitClassifier == req \in ClassifierRequests /\ ctx = None

InitQuality == req \in QualityRequests /\ ctx = None

InitHeaders == req \in HeaderRequests /\ ctx = None

InitSegment == req \in SegmentRequests /\ ctx = None

InitCache == req \in CacheRequests /\ ctx = None

Spec == Init /\ [][Next]_vars

SpecClassifier == InitClassifier /\ [][Next]_vars

SpecQuality == InitQuality /\ [][Next]_vars

SpecHeaders == InitHeaders /\ [][Next]_vars

SpecSegment == InitSegment /\ [][Next]_vars

SpecCache == InitCache /\ [][Next]_vars

(* ------------------------------ claims ------------------------------- *)
Built == ctx # None

Info == unwrap(ctx).content_info

Params == unwrap(ctx).query_params

\* The extension as the specification words it: the lower-cased text after the
\* final '.', absent when the path has no '.' or nothing follows the final '.'.
ExtensionAsSpecified(path) ==
    LET after == unwrap(last(split(path, <<".">>))) IN
      IF contains(path, <<".">>) /\ after # <<>> THEN Some(to_lowercase(after)) ELSE None

\* C1: a path whose extension is one of mp4, avi, mov, mkv, webm, flv is
\* classified Video with a media descriptor of format "video"; a codec query
\* parameter becomes the descriptor's codec and resolution=1080p gives the
\* resolution 1920 x 1080.
C1_VideoExtensionIsVideo ==
    (Built /\ is_some(ExtensionAsSpecified(req.uri.path))
           /\ unwrap(ExtensionAsSpecified(req.uri.path)) \in VideoExtensions)
    => /\ Info.content_category = "Video"
       /\ is_some(Info.media_type)
       /\ unwrap(Info.media_type).format = <<"v","i","d","e","o">>
       /\ (is_some(get(Params, <<"c","o","d","e","c">>))
             => unwrap(Info.media_type).codec = get(Params, <<"c","o","d","e","c">>))
       /\ (get(Params, <<"r","e","s","o","l","u","t","i","o","n">>) = Some(<<"1","0","8","0","p">>)
             => /\ is_some(Info.quality_info.resolution)
                /\ unwrap(Info.quality_info.resolution).width = Some(1920)
                /\ unwrap(Info.quality_info.resolution).height = Some(1080))

\* C2: a path whose extension is one of ts, m4s, chk is classified MediaSegment
\* with is_streaming set, whatever directories it names, and its segment index
\* is the number captured from the path.
C2_SegmentExtensionIsMediaSegment ==
    (Built /\ is_some(ExtensionAsSpecified(req.uri.path))
           /\ unwrap(ExtensionAsSpecified(req.uri.path)) \in SegmentExtensions)
    => /\ Info.content_category = "MediaSegment"
       /\ Info.is_streaming
       /\ is_some(Info.segment_info)
       /\ unwrap(Info.segment_info).index
            = extract_number_from_path(to_lowercase(req.uri.path), IndexPatterns)

\* C3: in every ContentInfo from_request builds, is_init_segment implies
\* is_streaming.
C3_InitSegmentIsStreaming ==
    Built => (Info.is_init_segment => Info.is_streaming)

\* C3 witness: a context whose content is an init segment.
C3_Witness == Built /\ Info.is_init_segment

\* C4: in every ContentInfo from_request builds, a present media_type implies
\* the category is Video or Audio, with format "video" for Video and "audio"
\* for Audio.
C4_MediaTypeOnlyForVideoAudio ==
    (Built /\ is_some(Info.media_type))
    => \/ /\ Info.content_category = "Video"
          /\ unwrap(Info.media_type).format = <<"v","i","d","e","o">>
       \/ /\ Info.content_category = "Audio"
          /\ unwrap(Info.media_type).format = <<"a","u","d","i","o">>

\* C4 witness: a context that carries a media descriptor.
C4_Witness == Built /\ is_some(Info.media_type)

\* C7: a path with a '.' followed by non-empty text has the lower-cased text
\* after the final '.' as its file_extension, and file_extension is absent
\* only when the path has no '.' or nothing follows the final '.'.
C7_ExtensionIsTextAfterFinalDot ==
    Built => Info.file_extension = ExtensionAsSpecified(req.uri.path)

\* C8: whenever the category is Video or Audio, by the extension table or by
\* the path patterns, the codec is reported: the codec parameter, else the c
\* parameter, else the first codec token of the lower-cased path.
C8_CodecDetectedForVideoAudio ==
    (Built /\ Info.content_category \in {"Video", "Audio"})
    => /\ is_some(Info.media_type)
       /\ unwrap(Info.media_type).codec
            = detect_codec(to_lowercase(req.uri.path), Params)

\* C5: a request and the same request with the header x-debug-id, which is
\* not among the extracted names, added, removed or changed give contexts
\* equal in every field.
C5_UnrecognizedHeaderIrrelevant ==
    Built => \A v \in DebugIdValues :
               from_request([req EXCEPT !.headers["x-debug-id"] = v]) = unwrap(ctx)

\* C5 witness: a context built from a request that carries x-debug-id.
C5_Witness == Built /\ is_some(req.headers["x-debug-id"])

AuthHeader == req.headers["authorization"]

Decodable(value) == is_some(value) /\ is_some(to_str(unwrap(value)))

WithAuthorization(value) == [req EXCEPT !.headers["authorization"] = value]

\* SipHash-1-3 with zero keys of the octets of "Bearer abc" followed by 0xFF,
\* in hexadecimal, from the reference implementation of the algorithm.
DigestOfBearerAbc == <<"c","9","b","3","a","5","1","0","c","8","2","9","8","5","7","d">>

\* auth_info is present exactly for a present, text-decodable Authorization, and
\* auth_hash is the digest of the whole trimmed value, the same on every call.
AuthHashOfTrimmedValue ==
    /\ has_authorization(unwrap(ctx)) <=> Decodable(AuthHeader)
    /\ is_some(unwrap(ctx).auth_info) <=> Decodable(AuthHeader)
    /\ Decodable(AuthHeader) =>
         /\ unwrap(unwrap(ctx).auth_info).auth_hash = simple_hash(trim(unwrap(AuthHeader)))
         /\ (trim(unwrap(AuthHeader)) = <<"B","e","a","r","e","r"," ","a","b","c">>
               => unwrap(unwrap(ctx).auth_info).auth_hash = DigestOfBearerAbc)
         /\ \A v \in AuthorizationValues :
              (Decodable(v) /\ trim(unwrap(v)) = trim(unwrap(AuthHeader)))
              => from_request(WithAuthorization(v)).auth_info = unwrap(ctx).auth_info

\* C6 as stated: auth_info is present exactly for a present, text-decodable
\* Authorization, auth_hash is a deterministic digest of the whole trimmed
\* value, and two requests that differ only in whether Authorization is
\* present yield different auth_info.
C6_AuthPresenceChangesAuthInfo ==
    Built =>
      /\ AuthHashOfTrimmedValue
      /\ \A v \in AuthorizationValues :
           (is_some(v) # is_some(AuthHeader))
           => from_request(WithAuthorization(v)).auth_info # unwrap(ctx).auth_info

\* C6 amended: as C6, but the two requests differ in whether a text-decodable
\* Authorization is present; a value that is not text-decodable counts as
\* absent.
C6_DecodableAuthPresenceChangesAuthInfo ==
    Built =>
      /\ AuthHashOfTrimmedValue
      /\ \A v \in AuthorizationValues :
           (Decodable(v) # Decodable(AuthHeader))
           => from_request(WithAuthorization(v)).auth_info # unwrap(ctx).auth_info

\* C6 witness: a context built from a request whose Authorization value is
\* text and carries surrounding whitespace.
C6_Witness ==
    /\ Built
    /\ has_authorization(unwrap(ctx))
    /\ trim(unwrap(AuthHeader)) # unwrap(AuthHeader)

QualityKeys == <<<<"r","e","s","o","l","u","t","i","o","n">>, <<"r","e","s">>, <<"q","u","a","l","i","t","y">>, <<"q">>>>

\* the value of the first key of keys that the query carries
RECURSIVE FirstPresent(_, _)
FirstPresent(query_params, keys) ==
    IF keys = <<>> THEN None
    ELSE IF keys[1] \in DOMAIN query_params THEN Some(query_params[keys[1]])
    ELSE FirstPresent(query_params, Tail(keys))

\* C9: when one of resolution, res, quality, q is in the query, the first
\* present in that order alone decides the resolution and the path is not
\* consulted; the resolution comes from the path only when none is present.
C9_QueryQualityTakesPrecedence ==
    Built =>
      LET v == FirstPresent(Params, QualityKeys) IN
        IF is_some(v)
          THEN /\ Info.quality_info.resolution = parse_resolution(unwrap(v))
               /\ \A p \in QualityPaths :
                    from_request([req EXCEPT !.uri.path = p])
                        .content_info.quality_info.resolution
                      = Info.quality_info.resolution
          ELSE Info.quality_info.resolution
                 = extract_resolution_from_path(to_lowercase(req.uri.path))

\* C9 witness: a quality parameter is present and the path embeds a token that
\* would give another resolution.
C9_Witness ==
    /\ Built
    /\ is_some(FirstPresent(Params, QualityKeys))
    /\ is_some(extract_resolution_from_path(to_lowercase(req.uri.path)))
    /\ extract_resolution_from_path(to_lowercase(req.uri.path))
         # Info.quality_info.resolution

\* C10: the q= of the Accept header sets quality_label only when neither the
\* query nor the path gave a quality; with a resolution/res/quality/q parameter
\* the label stays that parameter's value; when the Accept header does apply,
\* the label comes from its first comma-separated element that contains "q=".
C10_AcceptLabelOnlyWithoutQuality ==
    Built =>
      LET v         == FirstPresent(Params, QualityKeys)
          accept    == req.headers["accept"]
          from_path == extract_resolution_from_path(to_lowercase(req.uri.path))
      IN /\ is_some(v) => Info.quality_info.quality_label = v
         /\ (is_none(v) /\ is_some(from_path)) => is_none(Info.quality_info.quality_label)
         /\ (is_none(v) /\ is_none(from_path) /\ is_some(accept)
               /\ contains(unwrap(accept), <<"q","=">>))
            => Info.quality_info.quality_label
                 = accept_quality_label(split(trim(unwrap(accept)), <<",">>))

RecognizedLabels ==
    {<<"4","k">>, <<"1","0","8","0","p">>, <<"7","2","0","p">>, <<"4","8","0","p">>, <<"3","6","0","p">>, <<"2","4","0","p">>, <<"1","4","4","p">>, <<"h","d">>, <<"s","d">>,
     <<"f","u","l","l","h","d">>, <<"u","h","d">>, <<"2","k">>}

\* the recognized labels the path embeds that are not part of a longer one
EmbeddedLabels(path) ==
    LET embedded == {l \in RecognizedLabels : contains(path, l)} IN
      {l \in embedded : \A m \in embedded : m = l \/ ~contains(m, l)}

\* the WIDTHxHEIGHT token of the path, as <<WIDTH, HEIGHT>> digit strings
EmbeddedDimensions(path) ==
    LET token == captures(ResolutionPatterns[2], path) IN
      IF is_some(token) THEN split_once(unwrap(token), <<"x">>) ELSE None

\* C11: without a quality query parameter, a lower-cased path that embeds a
\* WIDTHxHEIGHT token of 3-4 digit numbers gets the resolution WIDTH x HEIGHT,
\* and a path that embeds a recognized label gets that label's canonical
\* width and height.
C11_PathResolution ==
    (Built /\ is_none(FirstPresent(Params, QualityKeys)))
    => LET path == to_lowercase(req.uri.path)
           dims == EmbeddedDimensions(path)
           res  == Info.quality_info.resolution
       IN /\ is_some(dims)
               => /\ is_some(res)
                  /\ unwrap(res).width = parse_u32(unwrap(dims)[1])
                  /\ unwrap(res).height = parse_u32(unwrap(dims)[2])
          /\ \A l \in EmbeddedLabels(path) :
               (is_none(dims) /\ EmbeddedLabels(path) = {l})
               => /\ is_some(res)
                  /\ unwrap(res).width = unwrap(parse_resolution(l)).width
                  /\ unwrap(res).height = unwrap(parse_resolution(l)).height

IndexKeys == <<<<"s","e","g","m","e","n","t">>, <<"s","e","g">>, <<"i","n","d","e","x">>>>

\* the number each index rule gives for the path, in the order of the rules:
\* the digits the rule captures, when they are an unsigned 32-bit number
RuleNumbers(path) ==
    [i \in 1..Len(IndexPatterns) |->
        LET token == captures(IndexPatterns[i], path) IN
          IF is_some(token) THEN parse_u32(unwrap(token)) ELSE None]

\* the number of the first rule that gives one
PathIndex(path) ==
    LET nums == RuleNumbers(path)
        hits == {i \in DOMAIN nums : is_some(nums[i])}
    IN IF hits = {} THEN None
       ELSE nums[CHOOSE i \in hits : \A j \in hits : i <= j]

\* the index the rules give for the modelled paths, worked out by hand
ExpectedPathIndex ==
    (<<"/","h","l","s","/","s","e","g","m","e","n","t","_","4","2",".","t","s">> :> Some(42)) @@ (<<"/","h","l","s","/","c","h","u","n","k","-","7","/","s","e","g","_","3",".","t","s">> :> Some(7)) @@
    (<<"/","h","l","s","/","s","e","g","_","3","/","c","h","u","n","k","-","7",".","t","s">> :> Some(7)) @@ (<<"/","h","l","s","/","c","h","u","n","k","_","5","/","s","e","g","m","e","n","t","-","6",".","t","s">> :> Some(6)) @@
    (<<"/","h","l","s","/","s","e","g","m","e","n","t","_","9","9","9","9","9","9","9","9","9","9","9","/","5",".","t","s">> :> Some(5)) @@ (<<"/","d","a","s","h","/","1","2","_","3","4",".","t","s">> :> Some(12)) @@
    (<<"/","h","l","s","/","f","r","a","g","m","e","n","t","7">> :> Some(7)) @@ (<<"/","h","l","s","/","l","i","v","e">> :> None) @@
    (<<"/","v","o","d","/","s","e","g","-","8",".","m","4","s">> :> Some(8))

\* C12: a streaming request gets its segment index from the path rules in
\* their order, the first rule whose capture is an unsigned 32-bit number
\* winning; the query parameters segment, seg, index are consulted only when
\* no rule gave a number, so no query changes a path-derived index; a request
\* that is not streaming gets no segment information.
C12_SegmentIndexFromPathFirst ==
    Built
    => LET path       == to_lowercase(req.uri.path)
           from_path  == PathIndex(path)
           from_query == FirstPresent(Params, IndexKeys)
       IN IF Info.is_streaming
            THEN /\ is_some(Info.segment_info)
                 /\ path \in DOMAIN ExpectedPathIndex => from_path = ExpectedPathIndex[path]
                 /\ is_some(from_path)
                      => /\ unwrap(Info.segment_info).index = from_path
                         /\ \A pair \in SegmentPairs :
                              unwrap(from_request([req EXCEPT !.uri.query = Some(pair)])
                                       .content_info.segment_info).index = from_path
                 /\ is_none(from_path)
                      => unwrap(Info.segment_info).index =
                           (IF is_some(from_query) THEN parse_u32(unwrap(from_query))
                            ELSE None)
            ELSE Info.segment_info = None

\* the first rule captures a number too large for u32, a later rule gives the
\* index, and the query names another index
C12_Witness ==
    /\ Built
    /\ Info.is_streaming
    /\ is_some(captures(IndexPatterns[1], to_lowercase(req.uri.path)))
    /\ is_none(RuleNumbers(to_lowercase(req.uri.path))[1])
    /\ get(Params, <<"s","e","g">>) = Some(<<"6">>)
    /\ unwrap(Info.segment_info).index = Some(5)

\* the peer is a loopback address: 127.0.0.0/8, or ::1
LoopbackPeer ==
    LET ip == req.client_addr.ip IN
      IF Len(ip) = 4 THEN ip[1] = 127 ELSE ip = <<0, 0, 0, 0, 0, 0, 0, 1>>

\* the caching decisions for a built context, given whether the request
\* counts as carrying an Authorization header
CacheDecisions(authorized) ==
    LET c     == unwrap(ctx)
        media == Info.content_category \in {"Video", "Audio"}
    IN /\ (~should_cache(c)) <=> (authorized /\ ~LoopbackPeer)
       /\ ~authorized => should_cache(c)
       /\ get_cache_priority(c) = "Low"
            => (authorized /\ ~Info.is_streaming /\ ~media)
       /\ (authorized /\ Info.is_streaming) => get_cache_priority(c) = "High"
       /\ (authorized /\ ~Info.is_streaming /\ media) => get_cache_priority(c) = "Medium"
       /\ get_cache_priority(c) \in CachePriority \ {"Critical"}

\* C13: should_cache() is false exactly when the request carries an
\* Authorization header and the client address is not loopback; every request
\* without Authorization is cacheable; get_cache_priority() is Low only for an
\* authorized request that is neither streaming nor Video/Audio (streaming or
\* media with Authorization still gets High/Medium) and is never Critical.
C13_UncachedIffAuthorizationFromRemote ==
    Built => CacheDecisions(is_some(AuthHeader))

\* C13, amended: the same with "carries an Authorization header" read as
\* "carries a text-decodable Authorization header"; a request whose
\* Authorization value is not text-decodable is cacheable from any address.
C13_UncachedIffDecodableAuthorizationFromRemote ==
    Built => CacheDecisions(Decodable(AuthHeader))

\* an authorized streaming request from a remote peer: not cacheable, High
C13_Witness ==
    /\ Built
    /\ Decodable(AuthHeader)
    /\ ~LoopbackPeer
    /\ Info.is_streaming
    /\ ~should_cache(unwrap(ctx))
    /\ get_cache_priority(unwrap(ctx)) = "High"
====
